---------------------------- MODULE Spec2Model ----------------------------
(***************************************************************************)
(* The task processor of asynq (processor.go): a dispatch loop goroutine   *)
(* that dequeues one message at a time, a counting semaphore (the buffered *)
(* channel p.sema) that bounds the worker goroutines, one worker goroutine *)
(* per admitted message, and start()/terminate() called by the owner.      *)
(*                                                                         *)
(* Every goroutine is a program counter; every action is one statement (or *)
(* one blocking channel operation) of processor.go.  The backend (rdb),    *)
(* the Handler and retryTask are outside processor.go: their results are   *)
(* inputs, drawn nondeterministically from the results their signatures    *)
(* allow.                                                                  *)
(***************************************************************************)
EXTENDS Integers, FiniteSets, Sequences, TLC

(* ------------------------------ bounds -------------------------------- *)

\* numWorkers ranges over 1..MaxWorkers (newProcessor's argument).
MaxWorkers == 2

\* Number of messages the backend hands out over a run.
MaxTasks == 3

Tasks == 1..MaxTasks

\* Callers of terminate(): the owner's call, and a further call.
Callers == {1, 2}

VARIABLES
    numWorkers,   \* cap(p.sema)
    sema,         \* len(p.sema): tokens in the buffered channel
    spc,          \* position of the caller of start()
    starts,       \* start() calls made
    restoreCalls, \* calls of rdb.RestoreUnfinished
    restoreErr,   \* result of the latest RestoreUnfinished: "none", "nil", "err"
    lpc,          \* position of the dispatch loop goroutine
    fetchRes,     \* result of the loop's latest Dequeue: "none", "msg", "timeout", "error"
    cur,          \* message the loop holds between Dequeue and the go statement (0: none)
    next,         \* messages dequeued so far; the next one is next + 1
    rpc,          \* rpc[t]: position of the worker goroutine of message t
    msg,          \* msg[t]: the TaskMessage the pointer msg refers to, from Dequeue on
    captured,     \* captured[t]: the copy of *msg bound by the defer statement
    outcome,      \* outcome[t]: how the handler ended for t
    perr,         \* perr[t]: the error perform returned for t
    handlerCalls, \* handlerCalls[t]: calls of h.ProcessTask for t
    retryCalls,   \* retryCalls[t]: calls of retryTask for t
    retryArg,     \* retryArg[t]: the message value and the error retryTask received
    doneCalls,    \* doneCalls[t]: calls of rdb.Done for t
    doneArg,      \* doneArg[t]: the message value rdb.Done received
    released,     \* released[t]: receives from p.sema by the worker of t
    tpc,          \* tpc[c]: position of caller c of terminate()
    ti,           \* ti[c]: loop variable i of terminate()'s drain loop
    heldAtCall,   \* heldAtCall[c]: "idle" or "busy": were tasks in flight when c invoked terminate()
    heldAtStop,   \* heldAtStop[c]: "idle" or "busy": were tasks in flight when c's stop signal was received
    parkAdmits    \* parkAdmits[c]: tasks the loop has admitted while c is parked on its p.done send

vars == <<numWorkers, sema, spc, starts, restoreCalls, restoreErr, lpc, fetchRes,
          cur, next, rpc, msg, captured, outcome, perr, handlerCalls, retryCalls,
          retryArg, doneCalls, doneArg, released, tpc, ti, heldAtCall, heldAtStop,
          parkAdmits>>

startVars  == <<spc, starts, restoreCalls, restoreErr>>
loopVars   == <<lpc, fetchRes, cur, next>>
workerVars == <<rpc, msg, captured, outcome, perr, handlerCalls, retryCalls,
                retryArg, doneCalls, doneArg, released>>
termVars   == <<tpc, ti, heldAtCall, heldAtStop, parkAdmits>>

(* ------------------------------ helpers ------------------------------- *)

\* The TaskMessage of task t as rdb.Dequeue returns it: its identity and its
\* retry metadata.
Message(t) == [id |-> t, retried |-> 0]

\* No message; no call.
NoMsg == [id |-> 0, retried |-> 0]
NoCall == [msg |-> NoMsg, err |-> "none"]

\* Worker goroutines that exist and have not yet received from p.sema.
Running == {t \in Tasks : rpc[t] \notin {"none", "exit"}}

\* Tasks in flight: fetched by the loop and not yet through their release.
InFlight == Cardinality(Running) + (IF cur # 0 THEN 1 ELSE 0)

\* Whether any task is in flight.
Load == IF InFlight = 0 THEN "idle" ELSE "busy"

\* Tokens terminate() callers have put into p.sema.
DrainTokens == ti[1] + ti[2]

\* Tokens in p.sema that the dispatch loop put there (slots held by tasks).
Held == sema - DrainTokens

(* ------------------------------- Init --------------------------------- *)

\* newProcessor: an empty semaphore of capacity numWorkers, an unbuffered
\* done channel, nothing started.
Init ==
    /\ numWorkers \in 1..MaxWorkers
    /\ sema = 0
    /\ spc = "idle"
    /\ starts = 0
    /\ restoreCalls = 0
    /\ restoreErr = "none"
    /\ lpc = "nostart"
    /\ fetchRes = "none"
    /\ cur = 0
    /\ next = 0
    /\ rpc = [t \in Tasks |-> "none"]
    /\ msg = [t \in Tasks |-> NoMsg]
    /\ captured = [t \in Tasks |-> NoMsg]
    /\ outcome = [t \in Tasks |-> "none"]
    /\ perr = [t \in Tasks |-> "none"]
    /\ handlerCalls = [t \in Tasks |-> 0]
    /\ retryCalls = [t \in Tasks |-> 0]
    /\ retryArg = [t \in Tasks |-> NoCall]
    /\ doneCalls = [t \in Tasks |-> 0]
    /\ doneArg = [t \in Tasks |-> NoMsg]
    /\ released = [t \in Tasks |-> 0]
    /\ tpc = [c \in Callers |-> "idle"]
    /\ ti = [c \in Callers |-> 0]
    /\ heldAtCall = [c \in Callers |-> "none"]
    /\ heldAtStop = [c \in Callers |-> "none"]
    /\ parkAdmits = [c \in Callers |-> 0]

(* ------------------------------ start() ------------------------------- *)

\* StartCall with the dispatch loop started before p.restore() has run (the
\* go statement placed first).
StartCallLoopFirst ==
    /\ spc = "idle"
    /\ spc' = "restore"
    /\ lpc' = "select"
    /\ starts' = starts + 1
    /\ UNCHANGED <<numWorkers, sema, restoreCalls, restoreErr>>
    /\ UNCHANGED <<fetchRes, cur, next>>
    /\ UNCHANGED <<workerVars, termVars>>

\* start() is entered (line 53).
StartCall ==
    /\ spc = "idle"
    /\ spc' = "restore"
    /\ starts' = starts + 1
    /\ UNCHANGED <<numWorkers, sema, restoreCalls, restoreErr>>
    /\ UNCHANGED <<loopVars, workerVars, termVars>>

\* start() is entered again on a processor whose dispatch loop has ended
\* (line 53): the same fields, the same p.sema and p.done.
StartAgain ==
    /\ spc = "returned"
    /\ lpc = "exit"
    /\ spc' = "restore"
    /\ starts' = starts + 1
    /\ UNCHANGED <<numWorkers, sema, restoreCalls, restoreErr>>
    /\ UNCHANGED <<loopVars, workerVars, termVars>>

\* p.restore(): one call of rdb.RestoreUnfinished; its error is logged and
\* dropped, and restore returns either way (lines 56, 103-108).
Restore ==
    /\ spc = "restore"
    /\ \E e \in {"nil", "err"} : restoreErr' = e
    /\ restoreCalls' = restoreCalls + 1
    /\ spc' = "go"
    /\ UNCHANGED <<numWorkers, sema, starts>>
    /\ UNCHANGED <<loopVars, workerVars, termVars>>

\* go func() { for { select ... } }(): the dispatch loop goroutine is
\* created at its select statement and start() returns (lines 57-68).
StartGo ==
    /\ spc = "go"
    /\ lpc' = "select"
    /\ spc' = "returned"
    /\ UNCHANGED <<numWorkers, sema, starts, restoreCalls, restoreErr>>
    /\ UNCHANGED <<fetchRes, cur, next>>
    /\ UNCHANGED <<workerVars, termVars>>

(* --------------------------- dispatch loop ---------------------------- *)

\* LoopStop with break in place of return: break leaves the select, not the
\* for loop, so the loop goes round again.
LoopStopBreak(c) ==
    /\ lpc = "select"
    /\ tpc[c] = "sending"
    /\ lpc' = "dequeue"
    /\ tpc' = [tpc EXCEPT ![c] = "drain"]
    /\ heldAtStop' = [heldAtStop EXCEPT ![c] = Load]
    /\ parkAdmits' = [parkAdmits EXCEPT ![c] = 0]
    /\ UNCHANGED <<numWorkers, sema, fetchRes, cur, next, ti, heldAtCall>>
    /\ UNCHANGED <<startVars, workerVars>>

\* LoopStop taken only once no runner is in flight: a loop that waits for
\* its runners before it honours the stop signal.
LoopStopWhenIdle(c) ==
    /\ lpc = "select"
    /\ tpc[c] = "sending"
    /\ Running = {}
    /\ lpc' = "exit"
    /\ tpc' = [tpc EXCEPT ![c] = "drain"]
    /\ heldAtStop' = [heldAtStop EXCEPT ![c] = Load]
    /\ parkAdmits' = [parkAdmits EXCEPT ![c] = 0]
    /\ UNCHANGED <<numWorkers, sema, fetchRes, cur, next, ti, heldAtCall>>
    /\ UNCHANGED <<startVars, workerVars>>

\* select, case <-p.done: p.done is unbuffered, so the receive pairs with a
\* sender parked in terminate() at line 43.  The loop returns; the sender
\* goes on to its drain loop (lines 59-62, 43).
LoopStop(c) ==
    /\ lpc = "select"
    /\ tpc[c] = "sending"
    /\ lpc' = "exit"
    /\ tpc' = [tpc EXCEPT ![c] = "drain"]
    /\ heldAtStop' = [heldAtStop EXCEPT ![c] = Load]
    /\ parkAdmits' = [parkAdmits EXCEPT ![c] = 0]
    /\ UNCHANGED <<numWorkers, sema, fetchRes, cur, next, ti, heldAtCall>>
    /\ UNCHANGED <<startVars, workerVars>>

\* LoopDefault taken whether or not a sender is parked: a loop that does not
\* poll p.done on every iteration.
LoopDefaultUnpolled ==
    /\ lpc = "select"
    /\ lpc' = "dequeue"
    /\ UNCHANGED <<numWorkers, sema, fetchRes, cur, next>>
    /\ UNCHANGED <<startVars, workerVars, termVars>>

\* select, default: taken only when no sender is parked on p.done; the loop
\* calls p.exec() (lines 63-64).
LoopDefault ==
    /\ lpc = "select"
    /\ \A c \in Callers : tpc[c] # "sending"
    /\ lpc' = "dequeue"
    /\ UNCHANGED <<numWorkers, sema, fetchRes, cur, next>>
    /\ UNCHANGED <<startVars, workerVars, termVars>>

\* The results rdb.Dequeue(p.dequeueTimeout) can return: a message while
\* the backend still has one to hand out, ErrDequeueTimeout, another error.
DequeueResults == {"timeout", "error"} \cup (IF next < MaxTasks THEN {"msg"} ELSE {})

\* msg, err := p.rdb.Dequeue(p.dequeueTimeout) (line 73).
LoopDequeue ==
    /\ lpc = "dequeue"
    /\ \E r \in DequeueResults :
          /\ fetchRes' = r
          /\ cur' = IF r = "msg" THEN next + 1 ELSE 0
          /\ next' = IF r = "msg" THEN next + 1 ELSE next
          /\ msg' = IF r = "msg" THEN [msg EXCEPT ![next + 1] = Message(next + 1)]
                     ELSE msg
    /\ lpc' = "chk"
    /\ UNCHANGED <<numWorkers, sema>>
    /\ UNCHANGED <<rpc, captured, outcome, perr, handlerCalls, retryCalls,
                   retryArg, doneCalls, doneArg, released>>
    /\ UNCHANGED <<startVars, termVars>>

\* AfterDequeue without the ErrDequeueTimeout test: a timeout, whose err is
\* not what the remaining test expects, falls through to the acquire.
AfterDequeueNoTimeout(r) == IF r = "error" THEN "select" ELSE "acquire"

\* AfterDequeue with an error other than the timeout treated as fatal: the
\* dispatch loop ends.
AfterDequeueErrorFatal(r) == IF r = "timeout" THEN "select"
                             ELSE IF r # "msg" THEN "exit"
                             ELSE "acquire"

\* Where exec goes after Dequeue: it returns on ErrDequeueTimeout and on
\* any other error, and builds the Task otherwise (lines 74-83).
AfterDequeue(r) == IF r = "timeout" THEN "select"
                   ELSE IF r # "msg" THEN "select"
                   ELSE "acquire"

\* if err == rdb.ErrDequeueTimeout { return }; if err != nil { log; return };
\* task := &Task{...} (lines 74-83).
LoopCheck ==
    /\ lpc = "chk"
    /\ lpc' = AfterDequeue(fetchRes)
    /\ fetchRes' = IF lpc' = "select" THEN "none" ELSE fetchRes
    /\ UNCHANGED <<numWorkers, sema, cur, next>>
    /\ UNCHANGED <<startVars, workerVars, termVars>>

\* CanSend with the capacity off by one: a channel of numWorkers + 1 slots.
CanSendOffByOne == sema <= numWorkers

\* A send on the buffered channel p.sema proceeds when it is not full.
CanSend == sema < numWorkers

\* LoopAcquire with a send that does not wait (a select with a default
\* around it): exec goes on to the go statement with or without a token.
LoopAcquireNoWait ==
    /\ lpc = "acquire"
    /\ sema' = IF CanSend THEN sema + 1 ELSE sema
    /\ lpc' = "spawn"
    /\ parkAdmits' = [c \in Callers |->
                        IF tpc[c] = "sending" THEN parkAdmits[c] + 1 ELSE parkAdmits[c]]
    /\ UNCHANGED <<numWorkers, fetchRes, cur, next>>
    /\ UNCHANGED <<tpc, ti, heldAtCall, heldAtStop>>
    /\ UNCHANGED <<startVars, workerVars>>

\* LoopAcquire with a send that gives up when the pool is full (a select
\* with a default that returns): the fetched message is dropped.
LoopAcquireOrDrop ==
    /\ lpc = "acquire"
    /\ sema' = IF CanSend THEN sema + 1 ELSE sema
    /\ lpc' = IF CanSend THEN "spawn" ELSE "select"
    /\ cur' = IF CanSend THEN cur ELSE 0
    /\ fetchRes' = IF CanSend THEN fetchRes ELSE "none"
    /\ parkAdmits' = [c \in Callers |->
                        IF tpc[c] = "sending" /\ CanSend THEN parkAdmits[c] + 1
                        ELSE parkAdmits[c]]
    /\ UNCHANGED <<numWorkers, next>>
    /\ UNCHANGED <<tpc, ti, heldAtCall, heldAtStop>>
    /\ UNCHANGED <<startVars, workerVars>>

\* p.sema <- struct{}{} // acquire token (line 84): the task is admitted.
LoopAcquire ==
    /\ lpc = "acquire"
    /\ CanSend
    /\ sema' = sema + 1
    /\ lpc' = "spawn"
    /\ parkAdmits' = [c \in Callers |->
                        IF tpc[c] = "sending" THEN parkAdmits[c] + 1 ELSE parkAdmits[c]]
    /\ UNCHANGED <<numWorkers, fetchRes, cur, next>>
    /\ UNCHANGED <<tpc, ti, heldAtCall, heldAtStop>>
    /\ UNCHANGED <<startVars, workerVars>>

\* go func(task *Task) {...}(task): the worker goroutine of the message is
\* created; exec returns and the loop is back at its select (lines 85, 98-99).
LoopSpawn ==
    /\ lpc = "spawn"
    /\ rpc' = [rpc EXCEPT ![cur] = "start"]
    /\ cur' = 0
    /\ fetchRes' = "none"
    /\ lpc' = "select"
    /\ UNCHANGED <<numWorkers, sema, next>>
    /\ UNCHANGED <<msg, captured, outcome, perr, handlerCalls, retryCalls,
                   retryArg, doneCalls, doneArg, released>>
    /\ UNCHANGED <<startVars, termVars>>

(* ------------------------- worker goroutine --------------------------- *)

\* defer func(msg rdb.TaskMessage) {...}(*msg) evaluates *msg now and binds
\* the copy; then perform calls h.ProcessTask(task) (lines 88, 93, 94, 119).
RunnerStart(t) ==
    /\ rpc[t] = "start"
    /\ captured' = [captured EXCEPT ![t] = msg[t]]
    /\ handlerCalls' = [handlerCalls EXCEPT ![t] = @ + 1]
    /\ rpc' = [rpc EXCEPT ![t] = "running"]
    /\ UNCHANGED <<numWorkers, sema, msg, outcome, perr, retryCalls, retryArg,
                   doneCalls, doneArg, released>>
    /\ UNCHANGED <<startVars, loopVars, termVars>>

\* How h.ProcessTask can end: return nil, return an error, panic with a
\* non-nil value, panic(nil).
HandlerOutcomes == {"ok", "err", "panic", "panicnil"}

\* What recover() yields in perform's deferred function (line 115): nil
\* when the handler returned; the panic value when it panicked.  For
\* panic(nil) the toolchain decides: recover() returns nil (Go before 1.21,
\* or GODEBUG=panicnil=1) or a *runtime.PanicNilError (Go 1.21 and later).
Recovered(o) == CASE o = "panic"    -> {"value"}
                  [] o = "panicnil" -> {"nil", "value"}
                  [] OTHER          -> {"nil"}

\* perform (lines 113-120): the handler's own result when recover() gives
\* nil (the zero error when no return statement completed), and
\* fmt.Errorf("panic: %v", x) when it gives x != nil.
Perform(o, x) == IF x # "nil" THEN "panic"
                 ELSE IF o = "err" THEN "err"
                 ELSE "nil"

\* AfterPerform with Done called on the failure path only: on success the
\* worker goes straight to its release.
AfterPerformSkipDone(e) == IF e # "nil" THEN "retry" ELSE "release"

\* AfterPerform with the test inverted (err == nil).
AfterPerformInverted(e) == IF e = "nil" THEN "retry" ELSE "done"

\* Where the worker goes with perform's result: retryTask when err != nil,
\* else the end of the function, where the deferred function runs
\* (lines 95-98).
AfterPerform(e) == IF e # "nil" THEN "retry" ELSE "done"

\* The handler ends and perform returns; if err != nil (lines 94-95).
HandlerReturn(t) ==
    /\ rpc[t] = "running"
    /\ \E o \in HandlerOutcomes : \E x \in Recovered(o) :
          /\ outcome' = [outcome EXCEPT ![t] = o]
          /\ perr' = [perr EXCEPT ![t] = Perform(o, x)]
          /\ rpc' = [rpc EXCEPT ![t] = AfterPerform(Perform(o, x))]
    /\ UNCHANGED <<numWorkers, sema, msg, captured, handlerCalls, retryCalls,
                   retryArg, doneCalls, doneArg, released>>
    /\ UNCHANGED <<startVars, loopVars, termVars>>

\* retryTask(p.rdb, msg, err): it receives the pointer msg, so it sees and
\* may change the shared message (its retry metadata) (line 96).
RunnerRetry(t) ==
    /\ rpc[t] = "retry"
    /\ retryCalls' = [retryCalls EXCEPT ![t] = @ + 1]
    /\ retryArg' = [retryArg EXCEPT ![t] = [msg |-> msg[t], err |-> perr[t]]]
    /\ \E m \in {msg[t], [msg[t] EXCEPT !.retried = @ + 1]} :
          msg' = [msg EXCEPT ![t] = m]
    /\ rpc' = [rpc EXCEPT ![t] = "done"]
    /\ UNCHANGED <<numWorkers, sema, captured, outcome, perr, handlerCalls,
                   doneCalls, doneArg, released>>
    /\ UNCHANGED <<startVars, loopVars, termVars>>

\* RunnerDone with a deferred closure that takes no argument and reads the
\* outer msg pointer when it runs: Done gets the message as it is then.
RunnerDoneLive(t) ==
    /\ rpc[t] = "done"
    /\ doneCalls' = [doneCalls EXCEPT ![t] = @ + 1]
    /\ doneArg' = [doneArg EXCEPT ![t] = msg[t]]
    /\ rpc' = [rpc EXCEPT ![t] = "release"]
    /\ UNCHANGED <<numWorkers, sema, msg, captured, outcome, perr, handlerCalls,
                   retryCalls, retryArg, released>>
    /\ UNCHANGED <<startVars, loopVars, termVars>>

\* The deferred function: p.rdb.Done(&msg) with the bound copy; its error
\* is logged and dropped (lines 89-91).
RunnerDone(t) ==
    /\ rpc[t] = "done"
    /\ \E e \in {"nil", "err"} : TRUE
    /\ doneCalls' = [doneCalls EXCEPT ![t] = @ + 1]
    /\ doneArg' = [doneArg EXCEPT ![t] = captured[t]]
    /\ rpc' = [rpc EXCEPT ![t] = "release"]
    /\ UNCHANGED <<numWorkers, sema, msg, captured, outcome, perr, handlerCalls,
                   retryCalls, retryArg, released>>
    /\ UNCHANGED <<startVars, loopVars, termVars>>

\* A receive from the buffered channel p.sema proceeds when it is not empty.
CanReceive == sema > 0

\* RunnerRelease without the receive: the goroutine ends and its token stays
\* in the semaphore.
RunnerExitNoRelease(t) ==
    /\ rpc[t] = "release"
    /\ rpc' = [rpc EXCEPT ![t] = "exit"]
    /\ msg' = [msg EXCEPT ![t] = NoMsg]
    /\ captured' = [captured EXCEPT ![t] = NoMsg]
    /\ outcome' = [outcome EXCEPT ![t] = "none"]
    /\ perr' = [perr EXCEPT ![t] = "none"]
    /\ retryArg' = [retryArg EXCEPT ![t] = NoCall]
    /\ doneArg' = [doneArg EXCEPT ![t] = NoMsg]
    /\ UNCHANGED <<numWorkers, sema, released, handlerCalls, retryCalls, doneCalls>>
    /\ UNCHANGED <<startVars, loopVars, termVars>>

\* <-p.sema // release token; the deferred function returns and the
\* goroutine ends (lines 92-93, 98).  What lived in the goroutine's frames
\* (the bound copy, perform's result, the arguments of its calls) ends with
\* it, and the message is no longer referenced.
RunnerRelease(t) ==
    /\ rpc[t] = "release"
    /\ CanReceive
    /\ sema' = sema - 1
    /\ released' = [released EXCEPT ![t] = @ + 1]
    /\ rpc' = [rpc EXCEPT ![t] = "exit"]
    /\ msg' = [msg EXCEPT ![t] = NoMsg]
    /\ captured' = [captured EXCEPT ![t] = NoMsg]
    /\ outcome' = [outcome EXCEPT ![t] = "none"]
    /\ perr' = [perr EXCEPT ![t] = "none"]
    /\ retryArg' = [retryArg EXCEPT ![t] = NoCall]
    /\ doneArg' = [doneArg EXCEPT ![t] = NoMsg]
    /\ UNCHANGED <<numWorkers, handlerCalls, retryCalls, doneCalls>>
    /\ UNCHANGED <<startVars, loopVars, termVars>>

(* ---------------------------- terminate() ----------------------------- *)

\* terminate() is entered (lines 40-41).
TerminateCall(c) ==
    /\ tpc[c] = "idle"
    /\ tpc' = [tpc EXCEPT ![c] = "called"]
    /\ heldAtCall' = [heldAtCall EXCEPT ![c] = Load]
    /\ UNCHANGED <<numWorkers, sema, ti, heldAtStop, parkAdmits>>
    /\ UNCHANGED <<startVars, loopVars, workerVars>>

\* TerminateSend on a p.done made with a buffer (make(chan struct{}, 1)):
\* the send completes with no receiver and the caller goes on to the drain.
TerminateSendBuffered(c) ==
    /\ tpc[c] = "called"
    /\ tpc' = [tpc EXCEPT ![c] = "drain"]
    /\ UNCHANGED <<numWorkers, sema, ti, heldAtCall, heldAtStop, parkAdmits>>
    /\ UNCHANGED <<startVars, loopVars, workerVars>>

\* p.done <- struct{}{}: the caller parks on the unbuffered channel until
\* the dispatch loop receives (line 43; the receive is LoopStop).
TerminateSend(c) ==
    /\ tpc[c] = "called"
    /\ tpc' = [tpc EXCEPT ![c] = "sending"]
    /\ UNCHANGED <<numWorkers, sema, ti, heldAtCall, heldAtStop, parkAdmits>>
    /\ UNCHANGED <<startVars, loopVars, workerVars>>

\* DrainBound one short: the loop written i < cap(p.sema)-1.
DrainBoundShort == numWorkers - 1

\* DrainBound one long: the loop written i <= cap(p.sema).
DrainBoundLong == numWorkers + 1

\* The bound of the drain loop: cap(p.sema) (line 47).
DrainBound == numWorkers

\* for i := 0; i < cap(p.sema); i++ { p.sema <- struct{}{} }: one
\* iteration (lines 47-49).
TerminateDrain(c) ==
    /\ tpc[c] = "drain"
    /\ ti[c] < DrainBound
    /\ CanSend
    /\ sema' = sema + 1
    /\ ti' = [ti EXCEPT ![c] = @ + 1]
    /\ UNCHANGED <<numWorkers, tpc, heldAtCall, heldAtStop, parkAdmits>>
    /\ UNCHANGED <<startVars, loopVars, workerVars>>

\* TerminateReturn that hands its tokens back before it returns (a drain
\* loop followed by a loop of receives): the pool is usable again.
TerminateReturnEmptied(c) ==
    /\ tpc[c] = "drain"
    /\ ti[c] >= DrainBound
    /\ tpc' = [tpc EXCEPT ![c] = "returned"]
    /\ sema' = sema - ti[c]
    /\ ti' = [ti EXCEPT ![c] = 0]
    /\ UNCHANGED <<numWorkers, heldAtCall, heldAtStop, parkAdmits>>
    /\ UNCHANGED <<startVars, loopVars, workerVars>>

\* The drain loop's condition fails and terminate() returns (lines 47, 50-51).
TerminateReturn(c) ==
    /\ tpc[c] = "drain"
    /\ ti[c] >= DrainBound
    /\ tpc' = [tpc EXCEPT ![c] = "returned"]
    /\ UNCHANGED <<numWorkers, sema, ti, heldAtCall, heldAtStop, parkAdmits>>
    /\ UNCHANGED <<startVars, loopVars, workerVars>>

(* --------------------------- specifications --------------------------- *)

\* The dispatch loop goroutine's steps.
Loop ==
    \/ LoopStop(1)
    \/ LoopDefault
    \/ LoopDequeue
    \/ LoopCheck
    \/ LoopAcquire
    \/ LoopSpawn

\* One worker goroutine's steps.
Worker(t) ==
    \/ RunnerStart(t)
    \/ HandlerReturn(t)
    \/ RunnerRetry(t)
    \/ RunnerDone(t)
    \/ RunnerRelease(t)

\* The owner's use of the processor as its contract has it: start() once,
\* then terminate() once.
Owner ==
    \/ StartCall
    \/ Restore
    \/ StartGo
    \/ (spc = "returned" /\ TerminateCall(1))
    \/ TerminateSend(1)
    \/ TerminateDrain(1)
    \/ TerminateReturn(1)

Next == Owner \/ Loop \/ (\E t \in Tasks : Worker(t))

Spec == Init /\ [][Next]_vars

\* Every goroutine that can take a step eventually takes one (the Go
\* scheduler).  Calling start() and calling terminate() are the owner's
\* choices and are not forced; a call that has begun goes on.
Fairness ==
    /\ WF_vars(Restore \/ StartGo)
    /\ WF_vars(Loop)
    /\ \A t \in Tasks : WF_vars(Worker(t))
    /\ WF_vars(TerminateSend(1) \/ TerminateDrain(1) \/ TerminateReturn(1))

FairSpec == Init /\ [][Next]_vars /\ Fairness

\* The dispatch loop goroutine's steps when any caller may be the sender
\* its receive pairs with.
AnyLoop ==
    \/ \E c \in Callers : LoopStop(c)
    \/ LoopDefault
    \/ LoopDequeue
    \/ LoopCheck
    \/ LoopAcquire
    \/ LoopSpawn

\* The owner's use of the processor outside its contract: terminate() from
\* either caller at any time, also before start(), and start() again once
\* the dispatch loop has ended.
AnyOwner ==
    \/ StartCall
    \/ StartAgain
    \/ Restore
    \/ StartGo
    \/ \E c \in Callers : TerminateCall(c)
    \/ \E c \in Callers : TerminateSend(c)
    \/ \E c \in Callers : TerminateDrain(c)
    \/ \E c \in Callers : TerminateReturn(c)

AnyNext == AnyOwner \/ AnyLoop \/ (\E t \in Tasks : Worker(t))

AnySpec == Init /\ [][AnyNext]_vars

(* ------------------------------- claims ------------------------------- *)

\* C1: for every numWorkers = N > 0, in every reachable state the number
\* of task runners holding a slot (the slot acquired in exec, counted from
\* the acquisition on, and not yet released by the runner's deferred
\* function) is at most N.
SlotsHeldAtMostN ==
    Cardinality(Running) + (IF lpc = "spawn" THEN 1 ELSE 0) <= numWorkers

\* C1 witness: a pool of two workers is saturated by two runners while the
\* dispatch loop waits at its acquire with a third message.
PoolSaturated ==
    /\ numWorkers > 1
    /\ Cardinality(Running) = numWorkers
    /\ lpc = "acquire"

\* C2: in every state where terminate() has returned, every runner that
\* exec spawned has released its token, and no token of the dispatch loop
\* is left in the semaphore.
TerminateReturnsAfterRelease ==
    tpc[1] = "returned" =>
        /\ \A t \in Tasks : rpc[t] # "none" => (rpc[t] = "exit" /\ released[t] = 1)
        /\ lpc # "spawn"
        /\ Held = 0

\* C2 witness: terminate() has returned although no task was in flight when
\* it was invoked and one was when the loop received the stop signal: a task
\* admitted just before the stop signal was observed.
ReturnedAfterLateAdmission ==
    /\ tpc[1] = "returned"
    /\ heldAtCall[1] = "idle"
    /\ heldAtStop[1] = "busy"

\* C3: once terminate() has returned no task is in flight, the dispatch
\* loop has ended, and no step calls the backend or the handler any more: the
\* loop takes no step (no Dequeue), no runner takes a step (no Done, no
\* retryTask, no handler) and RestoreUnfinished is not called.
NoBackendAfterTerminate ==
    /\ [](tpc[1] = "returned" => (InFlight = 0 /\ lpc = "exit"))
    /\ [][tpc[1] = "returned" =>
            UNCHANGED <<lpc, next, rpc, restoreCalls, handlerCalls, retryCalls,
                        doneCalls>>]_vars

\* C3 witness: terminate() has returned on a processor that had dequeued
\* every message and reported tasks done and failed.
ReturnedAfterWork ==
    /\ tpc[1] = "returned"
    /\ next = MaxTasks
    /\ \E t \in Tasks : doneCalls[t] = 1 /\ retryCalls[t] = 1
    /\ \E t \in Tasks : doneCalls[t] = 1 /\ retryCalls[t] = 0

\* C4 (as claimed): when the handler of an admitted task T returns a
\* failure, retryTask is called exactly once with T's original message and
\* the error, and Done is never called for T.
FailureNeverDone ==
    \A t \in Tasks : outcome[t] = "err" =>
        /\ rpc[t] = "retry" => retryCalls[t] = 0
        /\ rpc[t] \in {"done", "release"} =>
              (retryCalls[t] = 1 /\ retryArg[t] = [msg |-> Message(t), err |-> "err"])
        /\ doneCalls[t] = 0

\* C4 (amended): when the handler of an admitted task T returns a failure,
\* retryTask is called exactly once with T's original message and the
\* error, and after it Done is called exactly once for T, with the value the
\* message had when the runner started.
FailureRetriedThenDone ==
    \A t \in Tasks : outcome[t] = "err" =>
        /\ rpc[t] = "retry" => (retryCalls[t] = 0 /\ doneCalls[t] = 0)
        /\ rpc[t] = "done" =>
              /\ retryCalls[t] = 1
              /\ retryArg[t] = [msg |-> Message(t), err |-> "err"]
              /\ doneCalls[t] = 0
        /\ rpc[t] = "release" =>
              /\ retryCalls[t] = 1
              /\ retryArg[t] = [msg |-> Message(t), err |-> "err"]
              /\ doneCalls[t] = 1
              /\ doneArg[t] = Message(t)

\* C4 witness: a task whose handler returned an error has been through
\* retryTask, which changed the message, and through Done.
FailedTaskReported ==
    \E t \in Tasks :
        /\ outcome[t] = "err"
        /\ rpc[t] = "release"
        /\ msg[t].retried = 1

\* C5 (as claimed): when the handler of an admitted task panics, perform
\* turns the panic into an error, retryTask is called exactly once for the
\* task, and the slot is released exactly once.
PanicReportedOnce ==
    /\ \A t \in Tasks : outcome[t] \in {"panic", "panicnil"} =>
          /\ perr[t] = "panic"
          /\ rpc[t] = "retry" => retryCalls[t] = 0
          /\ rpc[t] \in {"done", "release"} => retryCalls[t] = 1
          /\ released[t] = 0
    /\ \A t \in Tasks : rpc[t] = "exit" => released[t] = 1

\* C6: RestoreUnfinished is called at most once; whenever the dispatch loop
\* exists (so at every Dequeue) it has been called exactly once and start()
\* is past it; and once start() has returned the dispatch loop exists,
\* whatever RestoreUnfinished returned.
RestoreOnceBeforeFetch ==
    /\ restoreCalls <= 1
    /\ lpc # "nostart" => (restoreCalls = 1 /\ spc = "returned")
    /\ spc = "returned" => lpc # "nostart"
    /\ next > 0 => restoreCalls = 1

\* C6 witness: RestoreUnfinished failed and the dispatch loop has
\* nevertheless called Dequeue, which returned a message.
FetchedAfterFailedRestore ==
    /\ restoreErr = "err"
    /\ lpc = "chk"
    /\ fetchRes = "msg"

\* C7: the steps of a dispatch-loop iteration whose Dequeue returned
\* ErrDequeueTimeout (the Dequeue itself, then the return from exec) change
\* neither the semaphore nor any runner and call neither retryTask nor Done;
\* the iteration ends back at the select, and the loop is at its acquire or
\* its go statement only with a message.
TimeoutIsNoOp ==
    /\ [](lpc \in {"acquire", "spawn"} => (fetchRes = "msg" /\ cur # 0))
    /\ [][(lpc' # lpc /\ (fetchRes' = "timeout" \/ fetchRes = "timeout")) =>
            /\ lpc' = (IF fetchRes = "timeout" THEN "select" ELSE "chk")
            /\ UNCHANGED <<sema, rpc, handlerCalls, retryCalls, doneCalls, released,
                           cur, next>>]_vars

\* C7 witness: Dequeue has returned ErrDequeueTimeout while a runner holds
\* a slot and another slot is free.
TimeoutWhileRunning ==
    /\ lpc = "chk"
    /\ fetchRes = "timeout"
    /\ Running # {}
    /\ CanSend

\* Every message has been reported done to the backend.
AllDone == \A t \in Tasks : doneCalls[t] = 1

\* The case of C8: terminate() is not called, the messages are queued (so
\* Dequeue returns neither a timeout nor an error while one is left) and
\* every handler succeeds.
QueuedAndSucceeding ==
    /\ tpc[1] = "idle"
    /\ fetchRes \in {"timeout", "error"} => next = MaxTasks
    /\ \A t \in Tasks : outcome[t] \in {"none", "ok"}

\* C8: with N workers and more than N messages, the acquire for each of the
\* first N messages never waits; the handler of a message fetched after the
\* N-th has started only if an earlier runner has released its slot; and
\* from a started processor on, if terminate() is never called, the messages
\* are queued and every handler succeeds, every message is eventually
\* reported done.
PoolAdmission ==
    /\ [](\A t \in Tasks : (lpc = "acquire" /\ cur = t /\ t <= numWorkers) => CanSend)
    /\ [](\A t \in Tasks : (t > numWorkers /\ handlerCalls[t] > 0) =>
              \E u \in 1..(t - 1) : released[u] = 1)
    /\ (spc = "returned") ~> (~QueuedAndSucceeding \/ AllDone)

\* C8 witness: two workers, three messages: the handlers of the first two
\* run at the same time and the third message waits at the acquire.
ThirdWaitsForSlot ==
    /\ numWorkers = 2
    /\ rpc[1] = "running"
    /\ rpc[2] = "running"
    /\ lpc = "acquire"
    /\ cur = 3
    /\ ~CanSend

\* terminate()'s caller, in its drain loop, can take a step: the send of the
\* current iteration can proceed, or the loop has ended.
DrainCanProceed == ENABLED (TerminateDrain(1) \/ TerminateReturn(1))

\* C9 (as claimed): when terminate() is called while zero tasks are in
\* flight, its drain loop never blocks.
IdleAtCallNeverBlocks ==
    (tpc[1] = "drain" /\ heldAtCall[1] = "idle") => DrainCanProceed

\* C9 (amended): when zero tasks are in flight at the moment the dispatch
\* loop receives the stop signal, terminate()'s drain loop never blocks:
\* each of its N sends finds a free slot, and then it returns.
IdleAtStopNeverBlocks ==
    (tpc[1] = "drain" /\ heldAtStop[1] = "idle") => DrainCanProceed

\* C9 witness: terminate() was called and its stop signal received with no
\* task in flight, on a pool of more than one slot, and it has returned.
IdleTerminateReturned ==
    /\ tpc[1] = "returned"
    /\ heldAtCall[1] = "idle"
    /\ heldAtStop[1] = "idle"
    /\ numWorkers > 1

\* C10: under fair scheduling, with every handler, Done, retryTask and
\* Dequeue call returning, a call of terminate() on a started processor
\* eventually returns.
TerminateEventuallyReturns == (tpc[1] = "called") ~> (tpc[1] = "returned")

\* C10 witness: terminate() is parked on its stop-signal send while the pool
\* is saturated and the dispatch loop is blocked at its acquire.
TerminateWhileSaturated ==
    /\ tpc[1] = "sending"
    /\ lpc = "acquire"
    /\ ~CanSend
    /\ Cardinality(Running) = numWorkers

\* C11: a runner receives from the semaphore only after its rdb.Done call
\* has returned and, when perform returned an error (a handler error or a
\* recovered panic), after its retryTask call has returned too.
ReleaseAfterReconcile ==
    /\ [](\A t \in Tasks : rpc[t] = "release" =>
              (doneCalls[t] = 1 /\ (perr[t] # "nil" => retryCalls[t] = 1)))
    /\ [][\A t \in Tasks : released'[t] # released[t] =>
              /\ doneCalls[t] = 1
              /\ perr[t] # "nil" => retryCalls[t] = 1
              /\ UNCHANGED <<doneCalls, retryCalls>>]_vars

\* C11 witness: a runner whose handler panicked has been through retryTask
\* and Done and is at its release.
PanickedRunnerAtRelease ==
    \E t \in Tasks :
        /\ rpc[t] = "release"
        /\ outcome[t] = "panic"
        /\ doneCalls[t] = 1
        /\ retryCalls[t] = 1
        /\ released[t] = 0

\* Sends on p.sema by the dispatch loop so far: one per message that is past
\* the acquire.
LoopAcquired ==
    Cardinality({t \in Tasks : rpc[t] # "none"}) + (IF lpc = "spawn" THEN 1 ELSE 0)

\* Receives from p.sema so far.
RECURSIVE ReleasedUpTo(_)
ReleasedUpTo(n) == IF n = 0 THEN 0 ELSE released[n] + ReleasedUpTo(n - 1)

\* C12: counting the sends of the dispatch loop and of terminate(), the
\* sends on p.sema so far minus the receives so far lie in 0..numWorkers
\* (and are the channel's length), and a runner at its release always finds
\* a token to receive.
AcquiresMinusReleases ==
    /\ LoopAcquired + DrainTokens - ReleasedUpTo(MaxTasks) \in 0..numWorkers
    /\ LoopAcquired + DrainTokens - ReleasedUpTo(MaxTasks) = sema
    /\ \A t \in Tasks : rpc[t] = "release" => CanReceive

\* C12 witness: the semaphore is full with tokens of both kinds: terminate()
\* has put one in while a runner still holds its own.
FullWithBothKinds ==
    /\ sema = numWorkers
    /\ DrainTokens > 0
    /\ Running # {}
    /\ ReleasedUpTo(MaxTasks) > 0

\* C13: for an admitted task whose handler returned success, Done is called
\* exactly once, with the message as dequeued, and retryTask is not called.
SuccessDoneOnce ==
    \A t \in Tasks : outcome[t] = "ok" =>
        /\ retryCalls[t] = 0
        /\ rpc[t] \in {"done", "release"}
        /\ rpc[t] = "done" => doneCalls[t] = 0
        /\ rpc[t] = "release" => (doneCalls[t] = 1 /\ doneArg[t] = Message(t))

\* C13 witness: a task whose handler succeeded has been reported done.
SucceededTaskDone ==
    \E t \in Tasks :
        /\ outcome[t] = "ok"
        /\ rpc[t] = "release"
        /\ doneCalls[t] = 1

\* C14: every message Dequeue has returned is with the dispatch loop or has
\* a runner; the tokens the loop has in the semaphore are one per message
\* admitted and not yet released; no message's handler is called twice and
\* no runner releases twice; a runner that has ended has called the handler
\* once and released once; and under fair scheduling every message Dequeue
\* has returned ends with its runner ended, whenever terminate() is called.
FetchedRunsExactlyOnce ==
    /\ [](\A t \in Tasks :
              /\ handlerCalls[t] <= 1
              /\ released[t] <= 1
              /\ rpc[t] = "exit" => (handlerCalls[t] = 1 /\ released[t] = 1)
              /\ t > next => rpc[t] = "none"
              /\ t <= next => (rpc[t] # "none" \/ cur = t))
    /\ [](Held = Cardinality(Running) + (IF lpc = "spawn" THEN 1 ELSE 0))
    /\ \A t \in Tasks : (next >= t) ~> (rpc[t] = "exit")

\* C14 witness: terminate() was called while a task was in flight and has
\* returned; every message was fetched and each was executed and released
\* exactly once.
AllFetchedRanOnce ==
    /\ tpc[1] = "returned"
    /\ heldAtCall[1] = "busy"
    /\ next = MaxTasks
    /\ \A t \in Tasks : rpc[t] = "exit" /\ handlerCalls[t] = 1 /\ released[t] = 1

\* C15: when Dequeue returns an error other than the timeout there is no
\* message in hand, and the loop's next step goes back to the select with
\* no token acquired, no runner started, no handler called and no message
\* consumed; the dispatch loop ends only by receiving the stop signal.
FetchErrorIsSkipped ==
    /\ [](fetchRes = "error" => (lpc = "chk" /\ cur = 0))
    /\ [][(lpc = "chk" /\ fetchRes = "error" /\ lpc' # lpc) =>
            /\ lpc' = "select"
            /\ UNCHANGED <<sema, rpc, handlerCalls, retryCalls, doneCalls,
                           released, cur, next>>]_vars
    /\ [][(lpc' = "exit" /\ lpc # "exit") =>
            \E c \in Callers : tpc[c] = "sending" /\ tpc'[c] = "drain"]_vars

\* C15 witness: Dequeue has returned an error other than the timeout while
\* a runner holds a slot, another slot is free and a message is still queued.
FetchErrorWhileRunning ==
    /\ lpc = "chk"
    /\ fetchRes = "error"
    /\ Running # {}
    /\ CanSend
    /\ next < MaxTasks

\* C16: the copy the runner binds to its deferred function is the message
\* as Dequeue returned it, and stays so whatever is done to the shared
\* message afterwards; the message Done receives is that copy.
DoneGetsCapturedValue ==
    \A t \in Tasks :
        /\ captured[t] # NoMsg => captured[t] = Message(t)
        /\ rpc[t] = "release" => (doneCalls[t] = 1 /\ doneArg[t] = Message(t))

\* C16 witness: retryTask has changed the retry count of the shared message
\* and Done has been called with a message whose retry count is unchanged.
DoneAfterMutation ==
    \E t \in Tasks :
        /\ rpc[t] = "release"
        /\ msg[t].retried = 1
        /\ doneArg[t].retried = 0

\* C17: the loop can take the stop signal whenever it is at the select with
\* a sender parked, with runners in flight or not; taking it changes
\* neither the semaphore nor any runner; from then on the loop has ended
\* with no message in hand, no message is fetched, the loop acquires no
\* token and no runner is started; and under fair scheduling every runner
\* in flight at that moment runs to its end.
StopEndsLoopAtOnce ==
    /\ []((lpc = "select" /\ tpc[1] = "sending") => ENABLED LoopStop(1))
    /\ [][(tpc[1] = "sending" /\ tpc'[1] = "drain") =>
            UNCHANGED <<sema, next, workerVars>>]_vars
    /\ [](tpc[1] \in {"drain", "returned"} => (lpc = "exit" /\ cur = 0))
    /\ [][tpc[1] \in {"drain", "returned"} =>
            /\ UNCHANGED <<lpc, next, cur, fetchRes>>
            /\ Held' <= Held
            /\ \A t \in Tasks : rpc[t] = "none" => rpc'[t] = "none"]_vars
    /\ \A t \in Tasks :
          (lpc = "exit" /\ rpc[t] \notin {"none", "exit"}) ~>
              (rpc[t] = "exit" /\ handlerCalls[t] = 1 /\ doneCalls[t] = 1)

\* C17 witness: the loop has ended on the stop signal while a runner is
\* still inside its handler and messages are left in the queue.
LoopEndedRunnerInHandler ==
    /\ lpc = "exit"
    /\ tpc[1] = "drain"
    /\ next < MaxTasks
    /\ \E t \in Tasks : rpc[t] = "running"

\* C19: while a terminate() caller is parked on the send to p.done the
\* loop admits at most one task; once it has admitted one it is at the go
\* statement or back at the select, and its next step from the select is
\* the receive of the stop signal.
AtMostOneAdmittedWhileParked ==
    /\ [](\A c \in Callers : tpc[c] = "sending" =>
              /\ parkAdmits[c] <= 1
              /\ parkAdmits[c] = 1 => lpc \in {"spawn", "select"})
    /\ [][(lpc = "select" /\ lpc' # lpc /\ \E c \in Callers : tpc[c] = "sending")
              => lpc' = "exit"]_vars

\* C19 witness: with the caller parked on the send, the loop has admitted
\* one task and is back at the select while messages are left in the queue.
OneAdmittedWhileParked ==
    /\ tpc[1] = "sending"
    /\ parkAdmits[1] = 1
    /\ lpc = "select"
    /\ next < MaxTasks

\* The callers whose send on p.done has been received.
PastSend == {c \in Callers : tpc[c] \in {"drain", "returned"}}

\* The callers whose terminate() has returned.
Returned == {c \in Callers : tpc[c] = "returned"}

\* C18: in every state in which a terminate() has returned, however
\* start() is called afterwards, the semaphore is full with no runner
\* alive and the loop is not past its acquire, and no step from such a state
\* changes the semaphore, starts a runner or calls a handler.
NoResumeAfterTerminate ==
    /\ [](Returned # {} =>
              /\ sema = numWorkers
              /\ Held = 0
              /\ Running = {}
              /\ lpc # "spawn")
    /\ [][Returned # {} => UNCHANGED <<sema, rpc, handlerCalls>>]_vars

\* C18 witness: terminate() has returned, start() has been called a second
\* time and has returned, and the new dispatch loop has fetched a message
\* and stands at the acquire.
RestartedLoopBlocked ==
    /\ Returned # {}
    /\ starts = 2
    /\ spc = "returned"
    /\ lpc = "acquire"
    /\ cur # 0

\* C20: while no dispatch loop has been launched no terminate() call gets
\* past its send on p.done; with start() called at most once at most one
\* call gets past it; a parked caller leaves the send only by the step in
\* which a dispatch loop receives and ends; and in no case do two calls of
\* terminate() return.
TerminateCompletesOnce ==
    /\ [](lpc = "nostart" => PastSend = {})
    /\ [](starts <= 1 => Cardinality(PastSend) <= 1)
    /\ [](Cardinality(Returned) <= 1)
    /\ [][\A c \in Callers : (tpc[c] = "sending" /\ tpc'[c] # "sending") =>
              (lpc = "select" /\ lpc' = "exit" /\ tpc'[c] = "drain")]_vars

\* C20 witness: start() was called once, the first terminate() has
\* returned and the second call is parked on the send with the loop gone.
SecondTerminateParked ==
    /\ starts = 1
    /\ tpc[1] = "returned"
    /\ tpc[2] = "sending"
    /\ lpc = "exit"

=============================================================================
